---- MODULE Spec2Model ----
(***************************************************************************)
(* Session lifecycle of backend/src/server.ts: an Express server whose     *)
(* session middleware (express-session over a Redis store) resolves a      *)
(* signed cookie to a stored session, and five routes (login,              *)
(* check-session, profile, secret-data, logout) that read or write it.     *)
(*                                                                         *)
(* A request is handled in steps separated by the asynchronous store       *)
(* calls (get, set, touch, destroy); between two steps of one request the  *)
(* steps of other requests and the passing of time may interleave.         *)
(*                                                                         *)
(* Assumptions. NODE_ENV is 'development' except in SpecEnv; where it is   *)
(* 'prd' the clients connect over HTTPS, so that the Secure cookie is set  *)
(* and sent back. A client can present any cookie                          *)
(* text, but a signature that verifies only on an id the server has sent   *)
(* it. The store is healthy in Spec; SpecFault adds failing store calls.   *)
(* The variable monitor selects which history is recorded (the first       *)
(* login of a run, or the set of logged-out ids); it is never read by the  *)
(* handlers.                                                               *)
(*                                                                         *)
(* SpecClean runs the clean command of backend/redis-monitor.js beside the *)
(* server. SpecFront and SpecForm put the page of the frontend in front of *)
(* the server: its fetches are the server's requests, and the answers are  *)
(* processed in the order they arrive.                                     *)
(***************************************************************************)
EXTENDS Integers, FiniteSets, Sequences, TLC

\* ------------------------------------------------------------------ bounds
MaxSid == 2          \* session ids are 1..MaxSid
MaxInFlight == 1     \* requests being handled at the same time
MaxAgeTicks == 2     \* cookie.maxAge (24 hours) counted in ticks of the clock
SigMod == 2          \* signatures are 0..SigMod-1
MaxLen == 1          \* tokens in the text of an input of the login form
MaxRequests == 3     \* fetches of the page in one run

\* --------------------------------------------------------------- constants
Secret == 1          \* the signing secret of the session middleware
Null == "null"       \* JavaScript's undefined / null

SessionIds == 1..MaxSid
Sigs == 0..(SigMod - 1)

\* ---------------------------------------------------------- user directory
users ==
  << [id |-> "1", username |-> "juan",  password |-> "123456"],
     [id |-> "2", username |-> "maria", password |-> "password"],
     [id |-> "3", username |-> "admin", password |-> "admin123"] >>

NoUser == [id |-> Null, username |-> Null, password |-> Null]

\* users.find(u => u.username === username && u.password === password)
RECURSIVE FindFrom(_, _, _)
FindFrom(i, username, password) ==
  IF i > Len(users) THEN NoUser
  ELSE IF users[i].username = username /\ users[i].password = password
       THEN users[i]
       ELSE FindFrom(i + 1, username, password)

\* mutant: the username and the password are looked up separately, so the
\* password of any entry opens the account of any username
FindLoose(username, password) ==
  IF /\ \E i \in 1..Len(users) : users[i].username = username
     /\ \E i \in 1..Len(users) : users[i].password = password
  THEN CHOOSE u \in {users[i] : i \in 1..Len(users)} : u.username = username
  ELSE NoUser

Find(username, password) == FindFrom(1, username, password)

\* the credentials a client may submit
NoBody == [username |-> Null, password |-> Null]
Bodies ==
  { [username |-> "juan",  password |-> "123456"],     \* an entry
    [username |-> "maria", password |-> "password"],   \* another entry
    [username |-> "juan",  password |-> "password"],   \* another user's password
    [username |-> "nadie", password |-> "123456"] }    \* an unknown username

\* ------------------------------------------------------------ cookie codec
\* The cookie connect.sid is "s:" + sid + "." + HMAC(sid, secret).
Hmac(val) == (val * 2 + Secret) % SigMod

NoCookie == [has |-> FALSE, pre |-> FALSE, id |-> 0, sig |-> 0]
\* the values a client may send: none, the "s:"-prefixed value of an id with
\* its signature or with a signature that is not its own, and the signed value
\* with its prefix stripped
Cookies ==
  {NoCookie}
    \cup UNION {{[has |-> TRUE, pre |-> TRUE, id |-> s, sig |-> g] :
                   g \in {Hmac(s), (Hmac(s) + 1) % SigMod}} : s \in SessionIds}
    \cup {[has |-> TRUE, pre |-> FALSE, id |-> s, sig |-> Hmac(s)] : s \in SessionIds}

\* setcookie(): the signed value the server issues for a session id
Sign(val) == [has |-> TRUE, pre |-> TRUE, id |-> val, sig |-> Hmac(val)]

\* mutant: the signature is not compared
UnsignNoVerify(c) == c.id

\* cookie-signature unsign(): the id if the signature verifies, else 0 (false)
Unsign(c) == IF c.sig = Hmac(c.id) THEN c.id ELSE 0

\* mutant: a value without the "s:" prefix is taken as the session id
getcookieRaw(c) ==
  IF ~c.has THEN 0
  ELSE IF c.pre THEN Unsign(c)
  ELSE c.id

\* getcookie(): the session id a request's cookie resolves to, 0 if none
getcookie(c) ==
  IF ~c.has THEN 0
  ELSE IF c.pre THEN Unsign(c)
  ELSE 0

\* ------------------------------------------------------------------- state
VARIABLES
  store,      \* the Redis keys sess:<id>: session id -> stored record with its TTL
  inflight,   \* the requests being handled, each with its position
  issued,     \* session ids for which a Set-Cookie reached a client
  first,      \* history: the session and the user of the first login of the
              \* run, until that session is logged out or expires
  owner,      \* history: per session id, the user of the last login written
  loggedOut,  \* history: session ids removed by a logout and not written since
  survived,   \* history: session ids that were in the store when the server
              \* process was last restarted and were not written since
  env,        \* process.env.NODE_ENV of the server process
  monitor,    \* which of the histories first and loggedOut is recorded
  clean,      \* the position of the clean command of redis-monitor.js
  front       \* the page of the frontend: sections, requests, typed text

vars == <<store, inflight, issued, first, owner, loggedOut, survived, env,
          monitor, clean, front>>

\* req.session without its cookie: the fields declared in SessionData
EmptySess == [userId |-> Null, username |-> Null, isAuthenticated |-> FALSE]

NoSetCookie == [kind |-> "none", id |-> 0, secure |-> FALSE]
NoRes == [status |-> 0, success |-> Null, authenticated |-> Null,
          userId |-> Null, username |-> Null, sessionId |-> 0,
          message |-> Null, ran |-> FALSE]

Routes == {"login", "check", "profile", "secret", "logout"}

B(b) == IF b THEN "true" ELSE "false"

\* the ids a new session id cannot be equal to: uid-safe draws 24 random bytes,
\* so a new id differs from every id that is stored, was issued or was presented
Taken ==
  (DOMAIN store) \cup issued
    \cup {r.sid : r \in inflight} \cup {r.cookie.id : r \in inflight}

Min(S) == CHOOSE x \in S : \A y \in S : x <= y

\* mutant: the generator is not random and repeats an id that is in use
uidReused(taken) == Min(SessionIds)

\* generateSessionId(): a new id, given the ids that are taken
uid(taken) == Min(SessionIds \ taken)

\* ------------------------------------------------------------ the handlers
\* mutant: the gate tests that req.session exists, which it always does
requireAuthAnySession(sess) == TRUE

\* requireAuth: TRUE when next() is called, FALSE when it answers 401
requireAuth(sess) == sess.isAuthenticated

Unauthorized ==
  [NoRes EXCEPT !.status = 401, !.authenticated = "false",
                !.message = "No autorizado"]

\* mutant: the flag is set and the user's id and name are not written
loginHandlerFlagOnly(r) ==
  LET user == Find(r.body.username, r.body.password) IN
  IF user # NoUser
  THEN [r EXCEPT
          !.sess = [r.sess EXCEPT !.isAuthenticated = TRUE],
          !.res = [NoRes EXCEPT !.status = 200, !.success = "true",
                                !.userId = user.id, !.username = user.username,
                                !.message = "Login exitoso", !.ran = TRUE]]
  ELSE [r EXCEPT
          !.res = [NoRes EXCEPT !.status = 401, !.success = "false",
                                !.message = "Usuario o contrasena incorrectos",
                                !.ran = TRUE]]

\* mutant: the failure message says which field was wrong
loginHandlerTellsField(r) ==
  LET user == Find(r.body.username, r.body.password) IN
  IF user # NoUser
  THEN [r EXCEPT
          !.sess = [userId |-> user.id, username |-> user.username,
                    isAuthenticated |-> TRUE],
          !.res = [NoRes EXCEPT !.status = 200, !.success = "true",
                                !.userId = user.id, !.username = user.username,
                                !.message = "Login exitoso", !.ran = TRUE]]
  ELSE [r EXCEPT
          !.res = [NoRes EXCEPT !.status = 401, !.success = "false",
                                !.message =
                                  IF \E i \in 1..Len(users) :
                                       users[i].username = r.body.username
                                  THEN "Contrasena incorrecta"
                                  ELSE "Usuario desconocido",
                                !.ran = TRUE]]

\* mutant: a failed login resets the session it was presented with
loginHandlerClearsOnFailure(r) ==
  LET user == Find(r.body.username, r.body.password) IN
  IF user # NoUser
  THEN [r EXCEPT
          !.sess = [userId |-> user.id, username |-> user.username,
                    isAuthenticated |-> TRUE],
          !.res = [NoRes EXCEPT !.status = 200, !.success = "true",
                                !.userId = user.id, !.username = user.username,
                                !.message = "Login exitoso", !.ran = TRUE]]
  ELSE [r EXCEPT
          !.sess = EmptySess,
          !.res = [NoRes EXCEPT !.status = 401, !.success = "false",
                                !.message = "Usuario o contrasena incorrectos",
                                !.ran = TRUE]]

\* app.post('/api/login'): the session after the handler and the response
loginHandler(r) ==
  LET user == Find(r.body.username, r.body.password) IN
  IF user # NoUser
  THEN [r EXCEPT
          !.sess = [userId |-> user.id, username |-> user.username,
                    isAuthenticated |-> TRUE],
          !.res = [NoRes EXCEPT !.status = 200, !.success = "true",
                                !.userId = user.id, !.username = user.username,
                                !.message = "Login exitoso", !.ran = TRUE]]
  ELSE [r EXCEPT
          !.res = [NoRes EXCEPT !.status = 401, !.success = "false",
                                !.message = "Usuario o contrasena incorrectos",
                                !.ran = TRUE]]

\* mutant: the refusal says that the presented session is gone
profileHandlerSaysWhy(r) ==
  IF requireAuth(r.sess)
  THEN [r EXCEPT
          !.res = [NoRes EXCEPT !.status = 200, !.success = "true",
                                !.userId = r.sess.userId,
                                !.username = r.sess.username,
                                !.sessionId = r.sid,
                                !.authenticated = B(r.sess.isAuthenticated),
                                !.ran = TRUE]]
  ELSE IF r.cookieId # 0
       THEN [r EXCEPT !.res = [Unauthorized EXCEPT !.message = "Sesion expirada"]]
       ELSE [r EXCEPT !.res = Unauthorized]

\* app.get('/api/profile', requireAuth, ...)
profileHandler(r) ==
  IF requireAuth(r.sess)
  THEN [r EXCEPT
          !.res = [NoRes EXCEPT !.status = 200, !.success = "true",
                                !.userId = r.sess.userId,
                                !.username = r.sess.username,
                                !.sessionId = r.sid,
                                !.authenticated = B(r.sess.isAuthenticated),
                                !.ran = TRUE]]
  ELSE [r EXCEPT !.res = Unauthorized]

\* app.get('/api/secret-data', requireAuth, ...)
secretHandler(r) ==
  IF requireAuth(r.sess)
  THEN [r EXCEPT
          !.res = [NoRes EXCEPT !.status = 200, !.success = "true",
                                !.username = r.sess.username,
                                !.ran = TRUE]]
  ELSE [r EXCEPT !.res = Unauthorized]

\* mutant: a cookie that verifies is taken as proof of authentication
checkHandlerTrustCookie(r) ==
  [r EXCEPT
     !.res = [NoRes EXCEPT !.status = 200,
                           !.authenticated = B(r.cookieId # 0),
                           !.username = r.sess.username,
                           !.sessionId = r.sid,
                           !.ran = TRUE]]

\* mutant: check-session is put behind the gate
checkHandlerDenies(r) ==
  IF requireAuth(r.sess)
  THEN [r EXCEPT
          !.res = [NoRes EXCEPT !.status = 200,
                                !.authenticated = B(r.sess.isAuthenticated),
                                !.username = r.sess.username,
                                !.sessionId = r.sid,
                                !.ran = TRUE]]
  ELSE [r EXCEPT !.res = Unauthorized]

\* mutant: the handler writes to the session of every visitor
checkHandlerWritesSession(r) ==
  [r EXCEPT
     !.sess = [r.sess EXCEPT !.username = IF @ = Null THEN "guest" ELSE @],
     !.res = [NoRes EXCEPT !.status = 200,
                           !.authenticated = B(r.sess.isAuthenticated),
                           !.username = r.sess.username,
                           !.sessionId = r.sid,
                           !.ran = TRUE]]

\* app.get('/api/check-session')
checkHandler(r) ==
  [r EXCEPT
     !.res = [NoRes EXCEPT !.status = 200,
                           !.authenticated = B(r.sess.isAuthenticated),
                           !.username = r.sess.username,
                           !.sessionId = r.sid,
                           !.ran = TRUE]]

\* cookie.secure: process.env.NODE_ENV === 'prd'
secure == env = "prd"

\* mutant: saveUninitialized: true, a new session is saved though unchanged
endResponseSaveUninitialized(r) ==
  LET modified == r.sess # r.orig IN
  IF modified \/ r.cookieId # r.sid
  THEN [r EXCEPT !.pc = "save", !.setCookie = [kind |-> "set", id |-> r.sid,
                                           secure |-> secure]]
  ELSE [r EXCEPT !.pc = "touch"]

\* mutant: a cookie whose session is gone is cleared by the response
endResponseClearsStale(r) ==
  LET modified == r.sess # r.orig IN
  IF modified
  THEN [r EXCEPT !.pc = "save", !.setCookie = [kind |-> "set", id |-> r.sid,
                                               secure |-> secure]]
  ELSE IF r.cookieId = r.sid
       THEN [r EXCEPT !.pc = "touch"]
       ELSE IF r.cookieId # 0
            THEN [r EXCEPT !.pc = "done",
                           !.setCookie = [kind |-> "clear", id |-> 0,
                                          secure |-> FALSE]]
            ELSE [r EXCEPT !.pc = "done"]

\* The end of a response as the session middleware sees it (resave: false,
\* saveUninitialized: false, cookie.maxAge set): a session whose data changed
\* is saved and its cookie is set; an unchanged session that came from the
\* request's cookie is touched; anything else is sent as it is.
endResponse(r) ==
  LET modified == r.sess # r.orig IN
  IF modified
  THEN [r EXCEPT !.pc = "save", !.setCookie = [kind |-> "set", id |-> r.sid,
                                           secure |-> secure]]
  ELSE IF r.cookieId = r.sid
       THEN [r EXCEPT !.pc = "touch"]
       ELSE [r EXCEPT !.pc = "done"]

\* mutant: logout refuses a request that has no stored session
handleLogoutNeedsSession(r) ==
  CASE r.route = "login"   -> endResponse(loginHandler(r))
    [] r.route = "check"   -> endResponse(checkHandler(r))
    [] r.route = "profile" -> endResponse(profileHandler(r))
    [] r.route = "secret"  -> endResponse(secretHandler(r))
    [] r.route = "logout"  ->
         IF r.found THEN [r EXCEPT !.pc = "destroy"]
         ELSE [r EXCEPT !.pc = "done", !.res = Unauthorized]

\* The synchronous run from the resolved session to the next store call.
\* app.post('/api/logout') calls req.session.destroy and answers in its
\* callback; the other routes answer and reach the end of the response.
handle(r) ==
  CASE r.route = "login"   -> endResponse(loginHandler(r))
    [] r.route = "check"   -> endResponse(checkHandler(r))
    [] r.route = "profile" -> endResponse(profileHandler(r))
    [] r.route = "secret"  -> endResponse(secretHandler(r))
    [] r.route = "logout"  -> [r EXCEPT !.pc = "destroy"]

\* a request as it arrives, before its session is resolved
NewReq(route, cookie, body) ==
  [route |-> route, cookie |-> cookie, body |-> body,
   pc |-> "get", cookieId |-> getcookie(cookie), sid |-> 0,
   sess |-> EmptySess, orig |-> EmptySess, found |-> FALSE,
   res |-> NoRes, setCookie |-> NoSetCookie,
   wrote |-> FALSE, changed |-> FALSE,
   gFirst |-> Null, gOwner |-> Null, gOut |-> FALSE,
   gSurvived |-> FALSE, err |-> "none"]

\* no request
NoReq == NewReq("none", NoCookie, NoBody)

\* generate(): a new session with a new id and no data
generate(r, taken) ==
  [r EXCEPT !.sid = uid(taken), !.sess = EmptySess, !.orig = EmptySess]

\* inflate(): the session of the request's cookie, as loaded from the store
inflate(r, rec) ==
  [r EXCEPT !.sid = r.cookieId, !.found = TRUE,
            !.sess = [userId |-> rec.userId, username |-> rec.username,
                      isAuthenticated |-> rec.isAuthenticated],
            !.orig = [userId |-> rec.userId, username |-> rec.username,
                      isAuthenticated |-> rec.isAuthenticated]]

\* a cookie a client can hold: a client cannot sign, so a value that verifies
\* under the secret carries an id the server issued
Presentable(c) == (~c.has) \/ (c.sig = Hmac(c.id) => c.id \in issued)

\* values of first: no login yet; the session of the first login is gone
NoLogin == [sid |-> 0, user |-> Null]
LoginOver == [sid |-> 0, user |-> "over"]

\* ----------------------------------------------------------------- actions
\* A response is written out in the same run that completes it: while a
\* completed response is waiting, handing it to the client is the only step.
NothingToDeliver == \A r \in inflight : r.pc # "done"

\* Two kinds of store call are scheduled before the steps of the other
\* requests, because they commute with them. A request without a cookie that
\* verifies runs on a session whose id no other request can name. The touch of
\* an unchanged session follows its get: the response is fixed when the handler
\* returns, and a touch moved before the set, the destroy or the get of
\* another request leaves the same store.
Urgent(q) == q.cookieId = 0 \/ q.pc = "touch"

Ready(r) ==
  /\ NothingToDeliver
  /\ \A q \in inflight : Urgent(q) => q = r

Idle == Ready(NoReq)

\* the number of requests handled at the same time; the race specification
\* needs one more than the others to have two logins meet
\* the clean command when it is not running
NoClean == [pc |-> "idle", keys |-> {}, key |-> 0]

\* no response processed by the page yet
NoLast == [kind |-> "none", cause |-> "none", status |-> 0, flag |-> Null]

\* no fetch
NoEntry ==
  [n |-> 0, kind |-> "none", cause |-> "none", stage |-> "none",
   cookie |-> NoCookie, body |-> NoBody, status |-> 0, flag |-> Null]

\* no page: the specifications of the server alone
NoFront == [login |-> FALSE, user |-> FALSE]

\* the page before its script runs
Page ==
  [login |-> FALSE, user |-> FALSE, area |-> "empty",
   username |-> << >>, password |-> << >>, jar |-> NoCookie,
   pending |-> {}, n |-> 0, lastCheck |-> 0, newest |-> Null,
   last |-> NoLast]

Limit ==
  IF monitor \in {"race", "logoutrace"} THEN MaxInFlight + 1 ELSE MaxInFlight

StartServer(m, e) ==
  /\ store = << >>
  /\ inflight = {}
  /\ issued = {}
  /\ first = NoLogin
  /\ owner = [s \in SessionIds |-> Null]
  /\ loggedOut = {}
  /\ survived = {}
  /\ env = e
  /\ monitor = m
  /\ clean = NoClean

StartIn(m, e) == StartServer(m, e) /\ front = NoFront

Start(m) == StartIn(m, "development")

Init == Start("none")

\* the server takes a request: nothing waits to be scheduled first and the
\* number of requests in hand is below the limit
Open == Idle /\ Cardinality(inflight) < Limit

\* A request arrives. Without a cookie that verifies, the middleware
\* generates a session at once and the handler runs; with one, the
\* middleware asks the store for the session.
Arrive(route, cookie, body) ==
  /\ Open
  /\ Presentable(cookie)
  /\ LET r == NewReq(route, cookie, body)
         taken == Taken \cup {cookie.id} IN
     /\ IF r.cookieId = 0
        THEN /\ SessionIds \ taken # {}
             /\ inflight' = inflight \cup {handle(generate(r, taken))}
        ELSE inflight' = inflight \cup {r}
  /\ UNCHANGED <<store, issued, first, owner, loggedOut, survived, env, monitor, clean>>

\* a request of a client that is not the page of the frontend
Receive(route, cookie, body) == Arrive(route, cookie, body) /\ UNCHANGED front

\* store.get answers the middleware: the record, or nothing
StoreGet(r) ==
  /\ Ready(r)
  /\ r.pc = "get" /\ r.cookieId # 0
  /\ LET g == [r EXCEPT !.gFirst = IF first.sid = r.cookieId THEN first.user
                                   ELSE Null,
                        !.gOwner = owner[r.cookieId],
                        !.gOut = (r.cookieId \in loggedOut),
                        !.gSurvived = (r.cookieId \in survived)] IN
     IF r.cookieId \in DOMAIN store
     THEN inflight' = (inflight \ {r}) \cup {handle(inflate(g, store[r.cookieId]))}
     ELSE /\ SessionIds \ Taken # {}
          /\ inflight' = (inflight \ {r}) \cup {handle(generate(g, Taken))}
  /\ UNCHANGED <<store, issued, first, owner, loggedOut, survived, env, monitor, clean, front>>

Put(f, k, v) == [x \in (DOMAIN f) \cup {k} |-> IF x = k THEN v ELSE f[x]]
\* mutant: the key is not deleted
DropNothing(f, k) == f
\* mutant: the deletion matches every session key
DropAll(f, k) == << >>
Drop(f, k) == [x \in (DOMAIN f) \ {k} |-> f[x]]

\* mutant: the fields are written one by one and the write of the username
\* is lost when the key exists
StoreSetMerge(r) ==
  /\ Ready(r)
  /\ r.pc = "save"
  /\ store' = Put(store, r.sid,
                  [userId |-> r.sess.userId,
                   username |-> IF r.sid \in DOMAIN store
                                THEN store[r.sid].username
                                ELSE r.sess.username,
                   isAuthenticated |-> r.sess.isAuthenticated,
                   ttl |-> MaxAgeTicks])
  /\ inflight' = (inflight \ {r}) \cup {[r EXCEPT !.pc = "done", !.wrote = TRUE]}
  /\ first' = IF monitor = "first" /\ first = NoLogin
              THEN [sid |-> r.sid, user |-> r.sess.username]
              ELSE first
  /\ owner' = [owner EXCEPT ![r.sid] = r.sess.username]
  /\ loggedOut' = loggedOut \ {r.sid}
  /\ survived' = survived \ {r.sid}
  /\ UNCHANGED <<issued, env, monitor, clean, front>>

\* store.set: the session is written under its id with the TTL of maxAge
StoreSet(r) ==
  /\ Ready(r)
  /\ r.pc = "save"
  /\ store' = Put(store, r.sid,
                  [userId |-> r.sess.userId, username |-> r.sess.username,
                   isAuthenticated |-> r.sess.isAuthenticated,
                   ttl |-> MaxAgeTicks])
  /\ inflight' = (inflight \ {r}) \cup {[r EXCEPT !.pc = "done", !.wrote = TRUE]}
  /\ first' = IF monitor = "first" /\ first = NoLogin
              THEN [sid |-> r.sid, user |-> r.sess.username]
              ELSE first
  /\ owner' = [owner EXCEPT ![r.sid] = r.sess.username]
  /\ loggedOut' = loggedOut \ {r.sid}
  /\ survived' = survived \ {r.sid}
  /\ UNCHANGED <<issued, env, monitor, clean, front>>

\* mutant: the touch deletes the key instead of renewing it
StoreTouchDrops(r) ==
  /\ Ready(r)
  /\ r.pc = "touch"
  /\ store' = Drop(store, r.sid)
  /\ inflight' = (inflight \ {r}) \cup {[r EXCEPT !.pc = "done"]}
  /\ UNCHANGED <<issued, first, owner, loggedOut, survived, env, monitor, clean, front>>

\* store.touch: EXPIRE of the key, which does nothing when the key is absent
StoreTouch(r) ==
  /\ Ready(r)
  /\ r.pc = "touch"
  /\ store' = IF r.sid \in DOMAIN store
              THEN [store EXCEPT ![r.sid].ttl = MaxAgeTicks]
              ELSE store
  /\ inflight' = (inflight \ {r}) \cup {[r EXCEPT !.pc = "done"]}
  /\ UNCHANGED <<issued, first, owner, loggedOut, survived, env, monitor, clean, front>>

\* mutant: the handler answers without waiting for the callback of destroy,
\* and the deletion has not happened when the response goes out
StoreDestroyEarly(r) ==
  /\ Ready(r)
  /\ r.pc = "destroy"
  /\ inflight' = (inflight \ {r}) \cup
       {[r EXCEPT !.pc = "done",
                  !.setCookie = [kind |-> "clear", id |-> 0, secure |-> FALSE],
                  !.res = [NoRes EXCEPT !.status = 200, !.success = "true",
                                        !.message = "Sesion cerrada exitosamente",
                                        !.ran = TRUE]]}
  /\ UNCHANGED <<store, issued, first, owner, loggedOut, survived, env, monitor, clean, front>>

\* store.destroy succeeds (DEL of the key, present or not) and the callback
\* of the logout handler clears the cookie and answers 200
StoreDestroy(r) ==
  /\ Ready(r)
  /\ r.pc = "destroy"
  /\ store' = Drop(store, r.sid)
  /\ inflight' = (inflight \ {r}) \cup
       {[r EXCEPT !.pc = "done",
                  !.changed = (Drop(store, r.sid) # store),
                  !.setCookie = [kind |-> "clear", id |-> 0, secure |-> FALSE],
                  !.res = [NoRes EXCEPT !.status = 200, !.success = "true",
                                        !.message = "Sesion cerrada exitosamente",
                                        !.ran = TRUE]]}
  /\ first' = IF first.sid = r.sid THEN LoginOver ELSE first
  /\ owner' = [owner EXCEPT ![r.sid] = Null]
  /\ loggedOut' = IF monitor \in {"logout", "logoutrace"} /\ r.sid \in DOMAIN store
                  THEN loggedOut \cup {r.sid}
                  ELSE loggedOut
  /\ survived' = survived \ {r.sid}
  /\ UNCHANGED <<issued, env, monitor, clean, front>>

\* the response reaches the client, which keeps the cookie it sets
Depart(r) ==
  /\ r.pc = "done"
  /\ inflight' = inflight \ {r}
  /\ issued' = IF r.setCookie.kind = "set" THEN issued \cup {r.setCookie.id}
               ELSE issued
  /\ UNCHANGED <<store, first, owner, loggedOut, survived, env, monitor, clean>>

\* the cookie a browser holds once it has processed the response of r
JarAfter(r) ==
  CASE r.setCookie.kind = "set"   -> Sign(r.setCookie.id)
    [] r.setCookie.kind = "clear" -> NoCookie
    [] OTHER                      -> r.cookie

\* the response of a request of a client that is not the page of the frontend
Deliver(r) == Depart(r) /\ UNCHANGED front

\* time passes: Redis counts every TTL down and removes the keys that reach 0
Tick ==
  /\ Idle
  /\ DOMAIN store # {}
  /\ LET live == {s \in DOMAIN store : store[s].ttl > 1} IN
     /\ store' = [s \in live |-> [store[s] EXCEPT !.ttl = @ - 1]]
     /\ first' = IF first.sid \in (DOMAIN store) \ live THEN LoginOver ELSE first
     /\ owner' = [s \in SessionIds |-> IF s \in live THEN owner[s] ELSE Null]
     /\ survived' = survived \cap live
  /\ UNCHANGED <<inflight, issued, loggedOut, env, monitor, clean, front>>

Next ==
  \/ /\ Open
     /\ \E route \in Routes, cookie \in Cookies :
          \E body \in (IF route = "login" THEN Bodies ELSE {NoBody}) :
            Receive(route, cookie, body)
  \/ \E r \in inflight : StoreGet(r)
  \/ \E r \in inflight : StoreSet(r)
  \/ \E r \in inflight : StoreTouch(r)
  \/ \E r \in inflight : StoreDestroy(r)
  \/ \E r \in inflight : Deliver(r)
  \/ Tick

Spec == Init /\ [][Next]_vars

\* the same server, with the history of the first login recorded
InitFirst == Start("first")
SpecFirst == InitFirst /\ [][Next]_vars

\* the same server, with the history of the logouts recorded
InitLogout == Start("logout")
SpecLogout == InitLogout /\ [][Next]_vars

\* ------------------------------------------------------ restart, NODE_ENV
\* mutant: the sessions are kept in the memory of the process (MemoryStore)
RestartLosesStore ==
  /\ NothingToDeliver
  /\ inflight' = {}
  /\ store' = << >>
  /\ survived' = DOMAIN store
  /\ UNCHANGED <<issued, first, owner, loggedOut, env, monitor, clean, front>>

\* The server process stops and starts again, or another instance with the
\* same secret takes over: the requests it was handling are lost, and the
\* sessions, which are in Redis, are not.
Restart ==
  /\ NothingToDeliver
  /\ inflight' = {}
  /\ survived' = DOMAIN store
  /\ UNCHANGED <<store, issued, first, owner, loggedOut, env, monitor, clean, front>>

\* the cookies of clients that do not tamper: none, or one the server set
HonestCookies == {NoCookie} \cup {Sign(s) : s \in SessionIds}

\* the server with restarts, for clients that do not tamper and within the
\* lifetime of the sessions (no expiry)
NextRestart ==
  \/ /\ Open
     /\ \E route \in Routes, cookie \in HonestCookies :
          \E body \in (IF route = "login" THEN Bodies ELSE {NoBody}) :
            Receive(route, cookie, body)
  \/ \E r \in inflight : StoreGet(r)
  \/ \E r \in inflight : StoreSet(r)
  \/ \E r \in inflight : StoreTouch(r)
  \/ \E r \in inflight : StoreDestroy(r)
  \/ \E r \in inflight : Deliver(r)
  \/ Restart

InitRestart == Start("restart")
SpecRestart == InitRestart /\ [][NextRestart]_vars

\* the values of NODE_ENV a deployment may set
Envs == {"development", "production", "prd"}

InitEnv == \E e \in Envs : StartIn("none", e)
SpecEnv == InitEnv /\ [][Next]_vars

\* the credentials of the three directory entries: two logins that both
\* change a session differ from each other and from the user stored in it
RaceBodies ==
  {[username |-> users[i].username, password |-> users[i].password] :
     i \in 1..Len(users)}

\* Logins only, with one more request in flight, so that two logins that
\* present the same cookie run side by side, within the lifetime of the
\* sessions (no expiry).
NextRace ==
  \/ \E cookie \in HonestCookies, body \in RaceBodies :
       Receive("login", cookie, body)
  \/ \E r \in inflight : StoreGet(r)
  \/ \E r \in inflight : StoreSet(r)
  \/ \E r \in inflight : StoreTouch(r)
  \/ \E r \in inflight : Deliver(r)

InitRace == Start("race")
SpecRace == InitRace /\ [][NextRace]_vars

\* Logins and logouts of clients that do not tamper, with one more request in
\* flight and the history of the logouts recorded, within the lifetime of the
\* sessions (no expiry).
NextLogoutRace ==
  \/ /\ Open
     /\ \E route \in {"login", "logout"}, cookie \in HonestCookies :
          \E body \in (IF route = "login" THEN RaceBodies ELSE {NoBody}) :
            Receive(route, cookie, body)
  \/ \E r \in inflight : StoreGet(r)
  \/ \E r \in inflight : StoreSet(r)
  \/ \E r \in inflight : StoreTouch(r)
  \/ \E r \in inflight : StoreDestroy(r)
  \/ \E r \in inflight : Deliver(r)

InitLogoutRace == Start("logoutrace")
SpecLogoutRace == InitLogoutRace /\ [][NextLogoutRace]_vars

\* ---- the page of the frontend ----
\* front.login and front.user are the display of the two sections, front.area
\* is what the response area shows, front.username and front.password are
\* the contents of the two inputs, front.jar is the browser's cookie for the
\* backend, and front.pending holds the fetches whose promise is not settled
\* or whose continuation has not run. A fetch is "sent" until the server
\* takes it, "served" while the server handles it and "answered" when the
\* response is back; the continuations of answered fetches run in any order.
\* A fetch keeps its cookie and its body until the server has them.
\* front.n counts the fetches, front.lastCheck is the number of the check
\* issued last and front.newest the answer to it once processed; front.last
\* is the response processed last.

\* a text of an input: the tokens typed, " " for white space
Texts(word) == UNION {[1..k -> {" ", word}] : k \in 0..MaxLen}

RECURSIVE trimStart(_)
trimStart(t) ==
  IF t # << >> /\ Head(t) = " " THEN trimStart(Tail(t)) ELSE t

RECURSIVE trimEnd(_)
trimEnd(t) ==
  IF t # << >> /\ t[Len(t)] = " " THEN trimEnd(SubSeq(t, 1, Len(t) - 1)) ELSE t

\* mutant: the inputs are read as typed
trimNothing(t) == t

\* String.prototype.trim
trim(t) == trimEnd(trimStart(t))

\* the string of a text that is not empty: its word, or a string that is no
\* name and no password of the directory when the text has several tokens
value(t) == IF Len(t) = 1 THEN t[1] ELSE "otro"

showLoginSection(f) ==
  [f EXCEPT !.login = TRUE, !.user = FALSE, !.area = "empty"]

showUserSection(f) ==
  [f EXCEPT !.login = FALSE, !.user = TRUE]

displayResponse(f, what) == [f EXCEPT !.area = what]

\* fetch with credentials: 'include': the browser adds its cookie
fetchWithCredentials(f, kind, cause, body) ==
  [f EXCEPT !.n = f.n + 1,
            !.pending = f.pending \cup
               {[NoEntry EXCEPT !.n = f.n + 1, !.kind = kind, !.cause = cause,
                                !.stage = "sent", !.cookie = f.jar,
                                !.body = body]}]

\* checkSession() up to its await
checkSession(f, cause) ==
  [fetchWithCredentials(f, "check", cause, NoBody)
     EXCEPT !.lastCheck = f.n + 1, !.newest = Null]

\* mutant: the user section is shown whatever the answer says
checkSessionAnsweredOptimist(f, q) ==
  LET g == showUserSection(f)
      h == IF q.cause \in {"login", "logout"} THEN displayResponse(g, "success")
           ELSE g IN
  [h EXCEPT !.newest = IF q.n = f.lastCheck THEN q.flag ELSE f.newest]

\* checkSession() from the answer on, and then the rest of the handler that
\* awaited it: a body that is not JSON throws and leaves the sections alone
checkSessionAnswered(f, q) ==
  LET g == IF q.status = 500 THEN f
           ELSE IF q.flag = "true" THEN showUserSection(f)
           ELSE showLoginSection(f)
      h == IF q.cause \in {"login", "logout"} THEN displayResponse(g, "success")
           ELSE g IN
  [h EXCEPT !.newest = IF q.n = f.lastCheck THEN q.flag ELSE f.newest]


\* the submit handler of the login form up to its fetch
loginFormSubmit(f) ==
  LET username == trim(f.username)
      password == trim(f.password) IN
  IF username = << >> \/ password = << >>
  THEN displayResponse(f, "required")
  ELSE fetchWithCredentials(f, "login", "submit",
         [username |-> value(username), password |-> value(password)])

\* the submit handler from the answer of the login on
loginFormAnswered(f, q) ==
  IF q.flag = "true"
  THEN checkSession([f EXCEPT !.username = << >>, !.password = << >>], "login")
  ELSE displayResponse(f, "error")

\* mutant: a 401 is displayed and the session is not checked
getProtectedAnsweredNoCheck(f, q) ==
  IF q.status = 200 THEN displayResponse(f, "success")
  ELSE displayResponse(f, "error")

\* the click handlers of the profile and of the secret data from the answer on
getProtectedAnswered(f, q) ==
  IF q.status = 200 THEN displayResponse(f, "success")
  ELSE LET g == displayResponse(f, "error") IN
       IF q.status = 401 THEN checkSession(g, "401") ELSE g

\* the click handler of the logout from the answer on
logoutAnswered(f, q) ==
  IF q.flag = "true" THEN checkSession(f, "logout")
  ELSE displayResponse(f, "error")

\* The steps of the page that do not involve the server are scheduled while
\* the server handles no fetch of the page: they change the page only and the
\* steps of the server change the server only, so a step of the page taken
\* while a fetch is handled gives the same state as the same step taken
\* before that fetch reached the server.
Quiet == inflight = {}

\* the user types into the inputs of the login form
Type(u, p) ==
  /\ Quiet
  /\ front.login
  /\ front' = [front EXCEPT !.username = u, !.password = p]
  /\ UNCHANGED <<store, inflight, issued, first, owner, loggedOut, survived, env,
                 monitor, clean>>

\* the user submits the login form
Submit ==
  /\ Quiet
  /\ front.login
  /\ LET f == loginFormSubmit(front) IN
     /\ f.n <= MaxRequests
     /\ front' = f
  /\ UNCHANGED <<store, inflight, issued, first, owner, loggedOut, survived, env,
                 monitor, clean>>

\* the user clicks one of the buttons of the user section
Click(kind) ==
  /\ Quiet
  /\ front.user
  /\ front.n < MaxRequests
  /\ front' = fetchWithCredentials(front, kind, "click", NoBody)
  /\ UNCHANGED <<store, inflight, issued, first, owner, loggedOut, survived, env,
                 monitor, clean>>

\* a fetch of the page reaches the server, which handles the fetches of the
\* page one at a time; fetches on their way and responses on their way back
\* pass each other
Serve(q) ==
  /\ q.stage = "sent"
  /\ \A p \in front.pending : p.stage # "served"
  /\ Arrive(q.kind, q.cookie, q.body)
  /\ front' = [front EXCEPT !.pending =
                   (@ \ {q}) \cup {[q EXCEPT !.stage = "served",
                                             !.cookie = NoCookie,
                                             !.body = NoBody]}]

\* the response is back: the browser applies its Set-Cookie and settles the
\* promise of the fetch
Answer(r) ==
  /\ Depart(r)
  /\ \E q \in front.pending :
       /\ q.stage = "served"
       /\ front' =
            [front EXCEPT
               !.jar = JarAfter([r EXCEPT !.cookie = front.jar]),
               !.pending = (@ \ {q}) \cup
                  {[q EXCEPT !.stage = "answered", !.status = r.res.status,
                             !.flag = IF q.kind = "check" THEN r.res.authenticated
                                      ELSE r.res.success]}]

\* the continuation of an answered fetch runs
Process(q) ==
  /\ Quiet
  /\ q.stage = "answered"
  /\ LET f == [front EXCEPT !.pending = @ \ {q},
                            !.last = [kind |-> q.kind, cause |-> q.cause,
                                      status |-> q.status, flag |-> q.flag]]
         g == CASE q.kind = "check"  -> checkSessionAnswered(f, q)
                [] q.kind = "login"  -> loginFormAnswered(f, q)
                [] q.kind = "logout" -> logoutAnswered(f, q)
                [] OTHER             -> getProtectedAnswered(f, q) IN
     /\ g.n <= MaxRequests
     /\ front' = g
  /\ UNCHANGED <<store, inflight, issued, first, owner, loggedOut, survived, env,
                 monitor, clean>>

\* what the user of the page types: the name of the first user of the
\* directory, with its password or with the password of another user
FrontTexts ==
  {<<users[1].username>>} \X {<<users[1].password>>, <<users[2].password>>}

NextFront ==
  \/ \E t \in FrontTexts : Type(t[1], t[2])
  \/ Submit
  \/ \E kind \in {"profile", "secret", "logout"} : Click(kind)
  \/ \E q \in front.pending : Serve(q)
  \/ \E r \in inflight : StoreGet(r)
  \/ \E r \in inflight : StoreSet(r)
  \/ \E r \in inflight : StoreTouch(r)
  \/ \E r \in inflight : StoreDestroy(r)
  \/ \E r \in inflight : Answer(r)
  \/ \E q \in front.pending : Process(q)
  \/ Tick

\* the session of an earlier visit of the page, logged in as the first user
\* of the directory
Earlier ==
  [userId |-> users[1].id, username |-> users[1].username,
   isAuthenticated |-> TRUE, ttl |-> MaxAgeTicks]

\* the script has run: the first check of the session is on its way. The
\* browser comes without a cookie, or with the cookie of an earlier visit.
\* What the two sections display before the first answer is set by the
\* markup of the page, which the script does not touch
InitFront ==
  /\ inflight = {} /\ first = NoLogin /\ loggedOut = {} /\ survived = {}
  /\ env = "development" /\ monitor = "front" /\ clean = NoClean
  /\ \E back \in BOOLEAN, l \in BOOLEAN, u \in BOOLEAN :
       /\ store = IF back THEN Put(<< >>, 1, Earlier) ELSE << >>
       /\ issued = IF back THEN {1} ELSE {}
       /\ owner = [s \in SessionIds |->
                    IF back /\ s = 1 THEN Earlier.username ELSE Null]
       /\ front = checkSession([Page EXCEPT !.login = l, !.user = u,
                                           !.jar = IF back THEN Sign(1)
                                                   ELSE NoCookie],
                               "load")

SpecFront == InitFront /\ [][NextFront]_vars

\* what the user of the form types: any text of white space and of the word
\* of the first user of the directory in one input, with the other input
\* right, and the two inputs left empty
FormTexts ==
  {t \in Texts(users[1].username) \X Texts(users[1].password) :
     \/ t[1] = <<users[1].username>>
     \/ t[2] = <<users[1].password>>
     \/ t = << << >>, << >> >>}

\* the login form alone: the page without the buttons of the user section,
\* within the lifetime of the sessions
NextForm ==
  \/ \E t \in FormTexts : Type(t[1], t[2])
  \/ Submit
  \/ \E q \in front.pending : Serve(q)
  \/ \E r \in inflight : StoreGet(r)
  \/ \E r \in inflight : StoreSet(r)
  \/ \E r \in inflight : StoreTouch(r)
  \/ \E r \in inflight : Answer(r)
  \/ \E q \in front.pending : Process(q)

SpecForm == InitFront /\ [][NextForm]_vars

\* ---- the clean command of the monitor ----

\* what the TTL command of Redis can answer for a key: -2 when the key does
\* not exist; otherwise the time that remains, rounded to a whole number, so
\* that a key in the last unit of its life is reported as 0 or as 1
ttl(k) ==
  IF k \in DOMAIN store THEN {store[k].ttl - 1, store[k].ttl} ELSE {0 - 2}

\* keys('sess:*'): the command lists the keys of the sessions once, before
\* the loop
CleanKeys ==
  /\ clean.pc = "idle"
  /\ DOMAIN store # {}
  /\ clean' = [pc |-> "ttl", keys |-> DOMAIN store, key |-> 0]
  /\ UNCHANGED <<store, inflight, issued, first, owner, loggedOut, survived, env,
                 monitor, front>>

\* one turn of the loop up to its test: the TTL of the next listed key is
\* read, and the key is marked for deletion when the answer is 0 or less;
\* the command ends after the last key
CleanTtl ==
  /\ clean.pc = "ttl"
  /\ IF clean.keys = {}
     THEN clean' = NoClean
     ELSE LET key == Min(clean.keys) IN
          \E t \in ttl(key) :
            clean' = [pc |-> IF t <= 0 THEN "del" ELSE "ttl",
                      keys |-> clean.keys \ {key},
                      key |-> IF t <= 0 THEN key ELSE 0]
  /\ UNCHANGED <<store, inflight, issued, first, owner, loggedOut, survived, env,
                 monitor, front>>

\* the body of the test: DEL of the marked key, whatever the key holds by
\* now, and the loop goes on
CleanDel ==
  /\ clean.pc = "del"
  /\ store' = Drop(store, clean.key)
  /\ clean' = [clean EXCEPT !.pc = "ttl", !.key = 0]
  /\ first' = IF first.sid = clean.key THEN LoginOver ELSE first
  /\ owner' = [owner EXCEPT ![clean.key] = Null]
  /\ survived' = survived \ {clean.key}
  /\ UNCHANGED <<inflight, issued, loggedOut, env, monitor, front>>

\* the server with the clean command run beside it, as often as wanted
NextClean ==
  \/ /\ Open
     /\ \E route \in {"login", "check"}, cookie \in HonestCookies :
          \E body \in (IF route = "login" THEN {users[1]} ELSE {NoBody}) :
            Receive(route, cookie, body)
  \/ \E r \in inflight : StoreGet(r)
  \/ \E r \in inflight : StoreSet(r)
  \/ \E r \in inflight : StoreTouch(r)
  \/ \E r \in inflight : Deliver(r)
  \/ Tick
  \/ CleanKeys
  \/ CleanTtl
  \/ CleanDel

InitClean == Start("clean")
SpecClean == InitClean /\ [][NextClean]_vars

\* ------------------------------------------------------- store call failures
\* mutant: the callback ignores err and answers as for a destroy that worked
FailDestroyIgnored(r) ==
  /\ Ready(r)
  /\ r.pc = "destroy"
  /\ inflight' = (inflight \ {r}) \cup
       {[r EXCEPT !.pc = "done", !.err = "destroy",
                  !.setCookie = [kind |-> "clear", id |-> 0, secure |-> FALSE],
                  !.res = [NoRes EXCEPT !.status = 200, !.success = "true",
                                        !.message = "Sesion cerrada exitosamente",
                                        !.ran = TRUE]]}
  /\ UNCHANGED <<store, issued, first, owner, loggedOut, survived, env, monitor, clean, front>>

\* store.destroy fails: the callback of the logout handler gets err and
\* answers 500; the record stays
FailDestroy(r) ==
  /\ Ready(r)
  /\ r.pc = "destroy"
  /\ inflight' = (inflight \ {r}) \cup
       {[r EXCEPT !.pc = "done", !.err = "destroy",
                  !.res = [NoRes EXCEPT !.status = 500, !.success = "false",
                                        !.message = "Error al cerrar sesion",
                                        !.ran = TRUE]]}
  /\ UNCHANGED <<store, issued, first, owner, loggedOut, survived, env, monitor, clean, front>>

\* The body of Express's default error handler: the stack of the error,
\* unless NODE_ENV is 'production', where it is the name of the status.
finalhandler ==
  IF env = "production" THEN "Internal Server Error" ELSE "err.stack"

\* store.get fails: the middleware calls next(err), no handler runs and the
\* default error handler of Express answers 500 with the error
FailGet(r) ==
  /\ Ready(r)
  /\ r.pc = "get" /\ r.cookieId # 0
  /\ inflight' = (inflight \ {r}) \cup
       {[r EXCEPT !.pc = "done", !.err = "get",
                  !.res = [NoRes EXCEPT !.status = 500,
                                        !.message = finalhandler]]}
  /\ UNCHANGED <<store, issued, first, owner, loggedOut, survived, env, monitor, clean, front>>

\* store.set fails: the status and the headers of the response were written
\* before the save, so the response goes out as the handler made it
FailSet(r) ==
  /\ Ready(r)
  /\ r.pc = "save"
  /\ inflight' = (inflight \ {r}) \cup {[r EXCEPT !.pc = "done", !.err = "set"]}
  /\ UNCHANGED <<store, issued, first, owner, loggedOut, survived, env, monitor, clean, front>>

\* store.touch fails: as for a failed save
FailTouch(r) ==
  /\ Ready(r)
  /\ r.pc = "touch"
  /\ inflight' = (inflight \ {r}) \cup {[r EXCEPT !.pc = "done", !.err = "touch"]}
  /\ UNCHANGED <<store, issued, first, owner, loggedOut, survived, env, monitor, clean, front>>

NextFault ==
  \/ Next
  \/ \E r \in inflight : FailDestroy(r)
  \/ \E r \in inflight : FailGet(r)
  \/ \E r \in inflight : FailSet(r)
  \/ \E r \in inflight : FailTouch(r)

SpecFault == Init /\ [][NextFault]_vars

\* ------------------------------------------------------------- vocabulary
Done == {r \in inflight : r.pc = "done"}
Protected == {"profile", "secret"}

\* the cookie value verifies under the server secret
ValidlySigned(c) == c.has /\ c.pre /\ c.sig = Hmac(c.id)

\* the submitted credentials match an entry of the directory
Matches(body) ==
  \E i \in 1..Len(users) :
    users[i].username = body.username /\ users[i].password = body.password

\* the directory id of a username
IdOf(username) ==
  IF \E i \in 1..Len(users) : users[i].username = username
  THEN (CHOOSE u \in {users[i] : i \in 1..Len(users)} : u.username = username).id
  ELSE Null

\* the data fields of a store record, without its TTL
Data(rec) ==
  [userId |-> rec.userId, username |-> rec.username,
   isAuthenticated |-> rec.isAuthenticated]

\* the routes that only read the session
Reads == Protected \cup {"check"}

\* the messages the handlers of server.ts write, and the status name
GenericMessages ==
  {Null, "No autorizado", "Login exitoso", "Usuario o contrasena incorrectos",
   "Sesion cerrada exitosamente", "Error al cerrar sesion",
   "Internal Server Error"}

\* a text that trims to the empty string: nothing but white space
Blank(t) == \A i \in 1..Len(t) : t[i] = " "

\* the fetches of the page whose continuation runs in this step
Processed == {q \in front.pending \ front'.pending : q.stage = "answered"}

\* mutant: the cookie is issued readable by scripts (httpOnly: false)
setcookieScriptReadable(c) ==
  CASE c.kind = "set" ->
         [value |-> Sign(c.id), httpOnly |-> FALSE, path |-> "/",
          maxAge |-> MaxAgeTicks, secure |-> c.secure]
    [] OTHER ->
         [value |-> NoCookie, httpOnly |-> FALSE, path |-> "/",
          maxAge |-> 0, secure |-> FALSE]

\* The Set-Cookie header of a response. The session cookie is serialized with
\* the options of the middleware: httpOnly, the default path, and the lifetime
\* of maxAge counted from the response. res.clearCookie names the cookie with
\* an empty value, the default path and a date in the past.
setcookie(c) ==
  CASE c.kind = "set" ->
         [value |-> Sign(c.id), httpOnly |-> TRUE, path |-> "/",
          maxAge |-> MaxAgeTicks, secure |-> c.secure]
    [] OTHER ->
         [value |-> NoCookie, httpOnly |-> FALSE, path |-> "/",
          maxAge |-> 0, secure |-> FALSE]

\* ------------------------------------------------------------------ claims

\* C1: once a login of user u has answered 200 for a session, every later
\* check-session that presents the cookie of that session, before a logout or
\* the expiry of the session, reports authenticated:true and the username u.
\* Stated for the first successful login of a run, which any user and any
\* request can be: gFirst is its user while its session is neither logged out
\* nor expired when the check-session is resolved.
C1_LoginThenCheck ==
  \A r \in Done :
    (r.route = "check" /\ ValidlySigned(r.cookie) /\ r.gFirst # Null) =>
      (r.res.authenticated = "true" /\ r.res.username = r.gFirst)

\* C2: profile and secret-data answer 200 with their payload exactly when the
\* request resolved to a stored session whose isAuthenticated is true; in every
\* other case they answer 401 with authenticated:false and the handler behind
\* the gate did not run.
C2_GateIff ==
  \A r \in Done :
    r.route \in Protected =>
      IF r.found /\ r.orig.isAuthenticated
      THEN /\ r.res.status = 200
           /\ r.res.ran
           /\ r.res.username = r.orig.username
      ELSE /\ r.res.status = 401
           /\ r.res.authenticated = "false"
           /\ ~r.res.ran
           /\ r.res.username = Null /\ r.res.userId = Null

C2_Witness ==
  \E r \in Done :
    r.route \in Protected /\ r.found /\ r.res.status = 200 /\ r.res.ran

\* C3: after a logout has removed a session and answered 200, a request to
\* profile or secret-data that presents the cookie of that session is answered
\* 401, as long as no login has written the session again.
C3_AfterLogout ==
  \A r \in Done :
    (r.route \in Protected /\ ValidlySigned(r.cookie) /\ r.gOut) =>
      r.res.status = 401

C3_Witness ==
  \E r \in Done :
    /\ r.route \in Protected /\ ValidlySigned(r.cookie) /\ r.gOut
    /\ r.res.status = 401

\* C4: a successful login stores its record under a newly minted id: not the
\* id of the cookie presented with the login, nor the id of a record that was
\* in the store before it.
C4_FreshId ==
  \A r \in Done :
    (r.route = "login" /\ r.res.status = 200) =>
      (r.sid # r.cookie.id /\ ~r.found)

\* C5: a login whose credentials match no directory entry answers 401, writes
\* no store record and sends no Set-Cookie, so a client that had no cookie has
\* none afterwards; and a check-session without a cookie reports
\* authenticated:false.
C5_FailedLogin ==
  \A r \in Done :
    /\ (r.route = "login" /\ ~Matches(r.body)) =>
         /\ r.res.status = 401
         /\ r.setCookie.kind = "none"
         /\ ~r.wrote
         /\ (~r.cookie.has => JarAfter(r) = NoCookie /\ r.sid \notin DOMAIN store)
    /\ (r.route = "check" /\ ~r.cookie.has) =>
         (r.res.status = 200 /\ r.res.authenticated = "false")

C5_Witness ==
  \E r \in Done :
    /\ r.route = "login" /\ ~Matches(r.body) /\ ~r.cookie.has
    /\ r.res.status = 401

C7_Tamper ==
  \A r \in Done :
    (r.cookie.has /\ ~ValidlySigned(r.cookie)) =>
      /\ ~r.found
      /\ r.sid # r.cookie.id
      /\ r.res.status \in {200, 401}
      /\ r.route = "check" =>
           (r.res.status = 200 /\ r.res.authenticated = "false"
              /\ r.res.username = Null)
      /\ r.route \in Protected => r.res.status = 401

C7_Witness ==
  \E r \in Done :
    /\ r.route = "profile" /\ r.cookie.has /\ r.cookie.pre
    /\ r.cookie.sig # Hmac(r.cookie.id)
    /\ r.cookie.id \in DOMAIN store
    /\ r.res.status = 401

\* C8: a request whose validly signed cookie names a session that is absent
\* from the store is answered like a request without a cookie: check-session
\* gives 200 with authenticated:false and username null, the protected routes
\* give 401, and no error response is produced.
C8_AbsentLikeNoCookie ==
  \A r \in Done :
    (ValidlySigned(r.cookie) /\ ~r.found) =>
      /\ r.route = "check" =>
           /\ r.res.status = 200
           /\ r.res.authenticated = "false"
           /\ r.res.username = Null
      /\ r.route \in Protected => r.res = Unauthorized
      /\ r.route \in Protected \cup {"check"} => r.setCookie.kind = "none"

C8_Witness ==
  \E r \in Done :
    /\ ValidlySigned(r.cookie) /\ ~r.found /\ r.route = "check"
    /\ r.res.status = 200 /\ r.res.authenticated = "false"

\* C9: logout answers 200 {success:true} whether or not the request has a live
\* session, and a logout of a session that is not in the store leaves the store
\* as it was.
C9_LogoutIdempotent ==
  \A r \in Done :
    r.route = "logout" =>
      /\ r.res.status = 200
      /\ r.res.success = "true"
      /\ ~r.found => ~r.changed

C9_Witness ==
  \E r \in Done :
    /\ r.route = "logout" /\ ValidlySigned(r.cookie) /\ r.gOut /\ ~r.found
    /\ r.res.status = 200

\* C10: on every path of logout, whether destroy succeeded or failed, the
\* response carries the cookie-clearing header.
C10_ClearAlways ==
  \A r \in Done :
    r.route = "logout" => r.setCookie.kind = "clear"

\* C11 (as stated): logout answers 500 with success:false exactly when the
\* store's deletion of the session raises an error, and 200 {success:true} in
\* every other case.
C11_LogoutStatus ==
  \A r \in Done :
    r.route = "logout" =>
      IF r.err = "destroy"
      THEN r.res.status = 500 /\ r.res.success = "false"
      ELSE r.res.status = 200 /\ r.res.success = "true"

\* C11 (amended): logout answers 500 with success:false exactly when the
\* store's deletion of the session raises an error; when the lookup of the
\* session fails before the handler runs, it answers 500 without the handler's
\* body; in every other case it answers 200 {success:true}.
C11_LogoutStatusAmended ==
  \A r \in Done :
    r.route = "logout" =>
      /\ (r.res.status = 500 /\ r.res.success = "false") <=> (r.err = "destroy")
      /\ r.err = "get" =>
           (r.res.status = 500 /\ ~r.res.ran /\ r.res.success = Null)
      /\ r.err \notin {"get", "destroy"} =>
           (r.res.status = 200 /\ r.res.success = "true")

C11_Witness ==
  \E r \in Done :
    /\ r.route = "logout" /\ r.err = "destroy" /\ r.found
    /\ r.res.status = 500 /\ r.res.success = "false"
    /\ r.sid \in DOMAIN store

\* C12: in every state, every store record with isAuthenticated true has a
\* userId and a username that are present and not empty, and so has the session
\* of every request in flight, also between the steps of a login.
C12_AuthComplete ==
  /\ \A s \in DOMAIN store :
       store[s].isAuthenticated =>
         (store[s].userId \notin {Null, ""} /\ store[s].username \notin {Null, ""})
  /\ \A r \in inflight :
       r.sess.isAuthenticated =>
         (r.sess.userId \notin {Null, ""} /\ r.sess.username \notin {Null, ""})

C12_Witness ==
  \E r \in inflight :
    /\ r.route = "login" /\ r.pc = "save" /\ r.found
    /\ store[r.sid].isAuthenticated
    /\ store[r.sid].username # r.sess.username

\* C13: the TTL of a store record is set by the login that writes the record
\* and by nothing else: no step other than the save of a changed session makes
\* the TTL of a record larger, so a request that only reads the session does
\* not put off the expiry of its record.
C13_FixedExpiry ==
  [][\A s \in DOMAIN store :
       (s \in DOMAIN store' /\ store'[s].ttl > store[s].ttl) =>
         \E r \in inflight : r.sid = s /\ r.pc = "save"]_vars

\* C14: when the lookup of the session in the store fails, check-session
\* answers 200 with authenticated:false and the protected routes answer 401; no
\* read request is answered with a 5xx status.
C14_ReadsFailClosed ==
  \A r \in Done :
    r.route \in Protected \cup {"check"} =>
      /\ r.res.status < 500
      /\ r.err = "get" =>
           /\ r.route = "check" =>
                (r.res.status = 200 /\ r.res.authenticated = "false")
           /\ r.route \in Protected => r.res.status = 401

\* C15: when a store call of a login or a logout fails, the response is a
\* failure that is neither the 401 of bad credentials nor a success; and a
\* login answers success only if the authenticated record is in the store.
C15_WritesReportFailure ==
  \A r \in Done :
    r.route \in {"login", "logout"} =>
      /\ r.err \in {"get", "set", "destroy"} =>
           (r.res.status \notin {200, 401} /\ r.res.success # "true")
      /\ (r.route = "login" /\ r.res.status = 200) =>
           /\ r.wrote
           /\ r.sid \in DOMAIN store
           /\ store[r.sid].isAuthenticated

\* C16: every 401 of a protected route is the same response, with the same
\* status and body and no Set-Cookie, whatever the request presented: no
\* cookie, a cookie that does not verify, the cookie of a session that expired
\* or was destroyed, or a session that is stored but not authenticated.
C16_Uniform401 ==
  \A r \in Done :
    (r.route \in Protected /\ r.res.status # 200) =>
      /\ r.res = Unauthorized
      /\ r.setCookie.kind = "none"

C16_Witness ==
  \E r \in Done :
    /\ r.route = "secret" /\ ValidlySigned(r.cookie) /\ ~r.found
    /\ r.res = Unauthorized /\ r.setCookie.kind = "none"

\* C17: a login that fails answers 401 with the same body whether the
\* username is unknown or the username exists and the password is wrong.
C17_GenericFailure ==
  \A r \in Done :
    (r.route = "login" /\ ~Matches(r.body)) =>
      /\ r.res.status = 401
      /\ r.res.success = "false"
      /\ r.res.message = "Usuario o contrasena incorrectos"
      /\ r.res.userId = Null /\ r.res.username = Null
      /\ r.res.authenticated = Null

C17_Witness ==
  \E r \in Done :
    /\ r.route = "login" /\ r.res.status = 401
    /\ r.body.username = "juan" /\ r.body.password = "password"

\* C18: login answers 200 if and only if one directory entry has both the
\* submitted username and the submitted password; the user of the 200 response
\* and the userId and username written to the session are those of that entry.
C18_LoginIff ==
  \A r \in Done :
    r.route = "login" =>
      /\ r.res.status \in {200, 401}
      /\ r.res.status = 200 <=> Matches(r.body)
      /\ r.res.status = 200 =>
           /\ r.res.username = r.body.username
           /\ r.res.userId = IdOf(r.body.username)
           /\ r.sess = [userId |-> IdOf(r.body.username),
                        username |-> r.body.username,
                        isAuthenticated |-> TRUE]
           /\ r.sid \in DOMAIN store
           /\ store[r.sid].userId = IdOf(r.body.username)
           /\ store[r.sid].username = r.body.username

C18_Witness ==
  \E r \in Done :
    /\ r.route = "login" /\ r.res.status = 200
    /\ r.body.username = "maria" /\ r.res.userId = "2"
    /\ store[r.sid].username = "maria"

\* C19: check-session answers 200 for every session context, with
\* authenticated true exactly when the resolved session has isAuthenticated
\* true, and with username null whenever authenticated is false.
C19_CheckNeverDenies ==
  \A r \in Done :
    r.route = "check" =>
      /\ r.res.status = 200
      /\ r.res.authenticated = B(r.found /\ r.orig.isAuthenticated)
      /\ r.res.authenticated = "false" => r.res.username = Null
      /\ r.res.authenticated = "true" => r.res.username = r.orig.username

C19_Witness ==
  \E r \in Done :
    /\ r.route = "check" /\ r.res.status = 200
    /\ r.res.authenticated = "true" /\ r.res.username = "juan"

\* C20: a request without a cookie is resolved as unauthenticated whatever the
\* store holds: check-session reports authenticated:false, the protected routes
\* answer 401, and unless the request is a login that succeeds it leaves every
\* store record as it was.
C20_NoCookieNoSession ==
  \A r \in Done :
    ~r.cookie.has =>
      /\ ~r.found
      /\ r.route = "check" =>
           (r.res.status = 200 /\ r.res.authenticated = "false")
      /\ r.route \in Protected => r.res.status = 401
      /\ (r.route # "login" \/ r.res.status # 200) => (~r.wrote /\ ~r.changed)

C20_Witness ==
  \E r \in Done :
    /\ ~r.cookie.has /\ r.route = "check" /\ r.res.authenticated = "false"
    /\ \E s \in DOMAIN store : store[s].isAuthenticated /\ s \in issued

\* C21: a client that presents no session of its own (no cookie, or a cookie
\* that does not verify) and does not log in successfully causes no store
\* write and no deletion and gets no Set-Cookie with a session id; a session
\* cookie is only ever set by a login that answers 200, and every store record
\* was written by such a login.
C21_NothingForAnonymous ==
  /\ \A r \in Done :
       /\ (r.cookieId = 0 /\ ~(r.route = "login" /\ r.res.status = 200)) =>
            (~r.wrote /\ ~r.changed /\ r.setCookie.kind # "set"
               /\ r.sid \notin DOMAIN store)
       /\ r.setCookie.kind = "set" => (r.route = "login" /\ r.res.status = 200)
  /\ \A s \in DOMAIN store : store[s].isAuthenticated

C21_Witness ==
  \E r \in Done :
    /\ r.route = "logout" /\ ~r.cookie.has /\ r.res.status = 200
    /\ ~r.changed /\ r.setCookie.kind = "clear"
    /\ DOMAIN store # {}

\* C22: the outcome of a request is decided by its cookie and the store alone:
\* a request whose validly signed cookie names a record that is in the store
\* is resolved to that record and answered as its user, also when the record
\* was written before the server process was restarted or replaced.
C22_StoreDecides ==
  \A r \in Done :
    (ValidlySigned(r.cookie) /\ r.gOwner # Null /\ r.route \in Reads) =>
      /\ r.found
      /\ r.res.status = 200
      /\ r.res.username = r.gOwner
      /\ r.route = "check" => r.res.authenticated = "true"

C22_Witness ==
  \E r \in Done :
    /\ r.route = "profile" /\ r.gSurvived /\ r.found
    /\ r.res.status = 200 /\ r.res.username = r.gOwner

\* C23: a session cookie is issued with the Secure attribute exactly when
\* NODE_ENV is 'production'.
C23_SecureInProduction ==
  \A r \in Done :
    r.setCookie.kind = "set" => (r.setCookie.secure <=> env = "production")

\* C24: every response, also one produced when a store call raises an error,
\* carries one of the fixed generic messages and no detail of the error.
C24_NoErrorDetail ==
  \A r \in Done : r.res.message \in GenericMessages

\* C25: a store record is removed only by a logout of its session or by the
\* expiry of its TTL, and its data fields change only by the save of a login;
\* check-session, profile and secret-data do neither.
C25_ReadsWriteNothing ==
  [][\A s \in DOMAIN store :
       /\ s \notin DOMAIN store' =>
            \/ inflight' = inflight /\ store[s].ttl = 1
            \/ \E r \in inflight :
                 /\ r.route = "logout" /\ r.pc = "destroy" /\ r.sid = s
                 /\ r \notin inflight'
       /\ (s \in DOMAIN store' /\ Data(store'[s]) # Data(store[s])) =>
            \E r \in inflight :
              /\ r.route = "login" /\ r.pc = "save" /\ r.sid = s
              /\ r \notin inflight']_vars

C25_Witness ==
  \E r \in Done :
    /\ r.route \in Reads /\ r.found /\ r.res.status = 200
    /\ r.sid \in DOMAIN store
    /\ Data(store[r.sid]) = r.orig
    /\ store[r.sid].ttl = MaxAgeTicks

\* C26: a login that fails while presenting the cookie of a stored
\* authenticated session leaves the record of that session as it was, and the
\* response neither sets nor clears the cookie.
C26_FailedLoginKeepsSession ==
  \A r \in Done :
    (r.route = "login" /\ r.res.status = 401 /\ r.found) =>
      /\ ~r.wrote
      /\ r.setCookie.kind = "none"
      /\ JarAfter(r) = r.cookie
      /\ r.sid \in DOMAIN store
      /\ Data(store[r.sid]) = r.orig

C26_Witness ==
  \E r \in Done :
    /\ r.route = "login" /\ r.res.status = 401 /\ r.found
    /\ r.orig.isAuthenticated /\ store[r.sid].username = r.orig.username

\* C27: when logout answers 200, the record of the session is absent from the
\* store and the response clears the cookie.
C27_DeletedBeforeAnswer ==
  \A r \in Done :
    (r.route = "logout" /\ r.res.status = 200) =>
      (r.sid \notin DOMAIN store /\ r.setCookie.kind = "clear")

C27_Witness ==
  \E r \in Done :
    /\ r.route = "logout" /\ r.res.status = 200 /\ r.found /\ r.changed
    /\ r.orig.isAuthenticated

\* C28: the step in which a logout deletes its session leaves every record
\* other than the one its cookie identifies in the store and unchanged.
C28_LogoutOnlyOwn ==
  [][\A r \in inflight :
       (r.route = "logout" /\ r.pc = "destroy" /\ r \notin inflight') =>
         \A s \in (DOMAIN store) \ {r.cookieId} :
           s \in DOMAIN store' /\ store'[s] = store[s]]_vars

C28_Witness ==
  \E r \in Done :
    /\ r.route = "logout" /\ r.res.status = 200 /\ r.changed
    /\ \E s \in DOMAIN store :
         store[s].isAuthenticated /\ store[s].username = r.orig.username

\* C29: check-session or a protected request with a validly signed cookie
\* whose record is absent gets no Set-Cookie, so the client keeps its cookie,
\* writes no store record, and is answered as anonymous.
C29_StaleCookieKept ==
  \A r \in Done :
    (ValidlySigned(r.cookie) /\ ~r.found /\ r.route \in Reads) =>
      /\ r.setCookie = NoSetCookie
      /\ JarAfter(r) = r.cookie
      /\ ~r.wrote
      /\ r.sid \notin DOMAIN store /\ r.cookie.id \notin DOMAIN store
      /\ r.route = "check" => r.res.authenticated = "false"
      /\ r.route \in Protected => r.res.status = 401

C29_Witness ==
  \E r \in Done :
    /\ r.route = "profile" /\ ValidlySigned(r.cookie) /\ ~r.found
    /\ r.res.status = 401 /\ JarAfter(r) = r.cookie

\* C30: whatever the interleaving of logins that present the same cookie, the
\* record stored under a session id holds the userId and the username of one
\* and the same directory entry.
C30_OneEntry ==
  \A s \in DOMAIN store :
    \E i \in 1..Len(users) :
      users[i].id = store[s].userId /\ users[i].username = store[s].username

C30_Witness ==
  \E r1 \in inflight, r2 \in inflight :
    /\ r1.route = "login" /\ r2.route = "login"
    /\ r1.sid = r2.sid /\ r1.cookie = r2.cookie
    /\ r1.pc = "done" /\ r1.wrote /\ r2.pc = "save"
    /\ r1.sess.username # r2.sess.username
    /\ store[r1.sid].username = r1.sess.username

\* C31: once a logout has removed the record of a session id and answered
\* 200, no step writes a record under that id again, whatever requests that
\* presented the cookie of the session are in flight.
C31_NoResurrection ==
  [][\A s \in loggedOut : s \notin DOMAIN store']_vars

C33_OneSection ==
  front.last.kind = "check" =>
    /\ front.login # front.user
    /\ front.user <=> (front.last.flag = "true")

\* a check that said authenticated:true has been processed and the user
\* section alone is displayed
C33_Witness ==
  /\ front.last.kind = "check" /\ front.last.flag = "true"
  /\ front.user /\ ~front.login

\* C34: while the text of the username or of the password is empty or white
\* space only, no step sends a login request; the step that displays the
\* error of the form leaves the displayed sections, the fetches of the page,
\* the cookie and the server's sessions and requests as they were.
C34_BlankSendsNothing ==
  [][(Blank(front.username) \/ Blank(front.password)) =>
       /\ \A q \in front'.pending : q.kind = "login" => q.n <= front.n
       /\ (front'.area = "required" /\ front.area # "required") =>
            /\ front'.login = front.login /\ front'.user = front.user
            /\ front'.pending = front.pending /\ front'.jar = front.jar
            /\ store' = store /\ inflight' = inflight]_vars

\* the form displays its error for a username of white space only
C34_Witness ==
  /\ front.area = "required" /\ front.login
  /\ front.username # << >> /\ Blank(front.username)
  /\ ~Blank(front.password)

\* C35: the step that processes a 401 of the profile or of the secret data
\* issues a check-session, and the step that processes the answer
\* authenticated:false of such a check leaves the login section displayed
\* and the user section hidden.
C35_CheckAfter401 ==
  [][\A q \in Processed :
       /\ (q.kind \in Protected /\ q.status = 401) =>
            \E c \in front'.pending :
              /\ c.kind = "check" /\ c.cause = "401"
              /\ c.stage = "sent" /\ c.n = front.n + 1
       /\ (q.kind = "check" /\ q.cause = "401" /\ q.flag = "false") =>
            front'.login /\ ~front'.user]_vars

\* the session of the browser's cookie is gone from the store, a click was
\* answered 401 and the check that followed has brought the login section
C35_Witness ==
  /\ front.last.kind = "check" /\ front.last.cause = "401"
  /\ front.last.flag = "false"
  /\ front.login /\ ~front.user
  /\ front.jar # NoCookie /\ front.jar.id \notin DOMAIN store

\* C36: once every response has been processed, the section displayed is
\* the one of the answer to the check-session issued last. The page applies
\* the answers in the order they arrive, and the answer of an older check
\* that arrives late decides the display.
C36_NewestCheckWins ==
  (front.pending = {} /\ front.newest # Null) =>
    /\ front.user <=> (front.newest = "true")
    /\ front.login <=> (front.newest # "true")

\* C37: the clean command deletes only keys that are gone or in the last
\* unit of their life at the moment of the deletion, so that it never takes
\* away a session that has time left, also when requests are handled between
\* its steps. The code reads the TTL and deletes in two commands, and a
\* session renewed in between is deleted.
C37_CleanOnlyExpired ==
  [][(clean.pc = "del" /\ clean'.pc # "del") =>
       \E t \in ttl(clean.key) : t <= 0]_vars

====
